---------------------------- MODULE Spec2Model ----------------------------
(***************************************************************************)
(* Model of importarr.py: the folder discovery, the classification of the  *)
(* import target's file descriptors, the batched import submission, the    *)
(* catalog sync, the catalog paging loop and the process driver.           *)
(*                                                                         *)
(* Each component has its own specification (SpecScan, SpecClassify,       *)
(* SpecFiles, SpecStash, SpecPaging, SpecMain); the variables of the       *)
(* components a specification does not run stay at their idle values.      *)
(* Strings are sequences of character codes, so that string comparison is  *)
(* the comparison Python makes.                                            *)
(***************************************************************************)
EXTENDS Integers, Sequences, FiniteSets, TLC

VARIABLES
    \* ---- get_all_subfolders_recursive
    max_depth,          \* the max_depth argument
    scan_pc,            \* "idle" | "scanning" | "done"
    stack,              \* call stack of scan_directory, frames of path, depth, pc, subfolders
    all_folders,        \* list of <<subfolder, current_depth, file_count>>
    listed,             \* ghost: the paths scan_directory called os.listdir on
    pruned,             \* ghost: the paths scan_directory returned from at the depth check
    \* ---- configuration read from the environment
    DRY_RUN,
    FILE_BATCH_SIZE,
    MAX_SUBFOLDERS,     \* 0 stands for None
    PROCESS_ROOT_FILES,
    \* ---- run_file_import, process_file_folder, filter_matched_files
    file_pc,            \* "idle", "classify", "classified", "start", "folder", "batches", "done"
    folders_to_process,
    idx,                \* enumerate(folders_to_process, 1)
    all_files,          \* what get_files_to_import returned for the current folder
    matched,
    potential,
    unmatched,
    file_i,             \* the i of "for i in range(0, len(matched), FILE_BATCH_SIZE)"
    successful_batches,
    submitted,          \* ghost: the batches handed to import_file_batch for the current folder
    file_posts,         \* ghost: number of POSTs to /api/v3/command
    last_request,       \* ghost: the "files" of the last POST to /api/v3/command
    queried,            \* ghost: the folders get_files_to_import was called with, in order
    returned,           \* ghost: number of descriptors the import target returned so far
    query_kinds,        \* ghost: how each call of get_files_to_import ended, in order
    discovery,          \* ghost: what get_all_subfolders_recursive returned, before the cut
    formed,             \* ghost: number of batches handed to import_file_batch so far
    total_stats_files,  \* total_stats["files"]
    file_result,        \* what run_file_import returned: "none" while running
    \* ---- run_stash_sync, process_stash_batch
    STASH_BATCH_SIZE,
    stash_pc,           \* "idle" | "start" | "batch" | "done"
    existing_stash_ids,
    fetched_ids,        \* ghost: existing_stash_ids as built from get_whisparr_movies
    stashdb_scenes,
    stash_i,            \* the i of "for i in range(0, len(stashdb_scenes), STASH_BATCH_SIZE)"
    stash_j,            \* position of the next scene in the current batch, from 1
    added,
    failed,
    stash_posts,        \* ghost: number of POSTs to /api/v3/movie
    outcomes,           \* ghost: what happened to each scene processed, in order
    total_stats_stash,  \* total_stats["stash"]
    stash_result,       \* what run_stash_sync returned: "none" while running
    \* ---- get_stash_scenes
    page_pc,            \* "idle" | "loop" | "done"
    page,
    fetched,            \* len(all_scenes)
    last_kind,          \* the last answer of the catalog: "none" | "ok" | "errors" | "exception"
    last_items,         \* len(scenes) of the last answer
    last_total,         \* total_count of the last answer
    page_requests,      \* ghost: number of requests sent
    \* ---- main, run_all_imports
    WHISPARR_API_KEY,   \* TRUE when set to a non-empty value
    STASH_API_KEY,      \* TRUE when set to a non-empty value
    MODE,
    RUN_MODE,
    main_pc,            \* "idle" | "main" | "stash_step" | "files_step" | "returned" | "exited"
    success,
    runs,               \* number of calls of run_all_imports
    stash_invoked,      \* ghost: number of calls of run_stash_sync
    files_invoked,      \* ghost: number of calls of run_file_import
    stash_outcome,      \* ghost: "none" | "skipped" | "no_key" | "ok" | "failed" | "raised"
    files_outcome,      \* ghost: "none" | "skipped" | "ok" | "failed" | "raised"
    interrupted,        \* ghost: KeyboardInterrupt was raised
    exit_code           \* "none" while the process runs

scanVars == <<max_depth, scan_pc, stack, all_folders, listed, pruned>>

fileCfg == <<FILE_BATCH_SIZE, MAX_SUBFOLDERS, PROCESS_ROOT_FILES>>

folderVars == <<all_files, matched, potential, unmatched, file_i, successful_batches,
                submitted, last_request>>

fileVars == <<fileCfg, file_pc, folders_to_process, idx, folderVars, file_posts, queried,
              returned, query_kinds, discovery, formed, total_stats_files, file_result>>

stashVars == <<STASH_BATCH_SIZE, stash_pc, existing_stash_ids, fetched_ids, stashdb_scenes,
               stash_i, stash_j, added, failed, stash_posts, outcomes, total_stats_stash,
               stash_result>>

pageVars == <<page_pc, page, fetched, last_kind, last_items, last_total, page_requests>>

mainCfg == <<WHISPARR_API_KEY, STASH_API_KEY, MODE, RUN_MODE>>

mainVars == <<mainCfg, main_pc, success, runs, stash_invoked, files_invoked, stash_outcome,
              files_outcome, interrupted, exit_code>>

vars == <<scanVars, DRY_RUN, fileVars, stashVars, pageVars, mainVars>>

\* what the actions of one component leave alone
notScanVars == <<DRY_RUN, fileVars, stashVars, pageVars, mainVars>>
notFileVars == <<scanVars, DRY_RUN, stashVars, pageVars, mainVars>>
notStashVars == <<scanVars, DRY_RUN, fileVars, pageVars, mainVars>>
notPageVars == <<scanVars, DRY_RUN, fileVars, stashVars, mainVars>>
notMainVars == <<scanVars, DRY_RUN, fileVars, stashVars, pageVars>>

-----------------------------------------------------------------------------
(* Bounds *)

\* most directories one discovery appends
MaxDirs == 4
\* largest max_depth argument tried (0 .. MaxDepthArg)
MaxDepthArg == 2
\* most descriptors the import target returns over one run
MaxFiles == 3
\* largest FILE_BATCH_SIZE and STASH_BATCH_SIZE tried (1 .. MaxBatch)
MaxBatch == 2
\* largest MAX_SUBFOLDERS tried (0 for None, 1 .. MaxCap)
MaxCap == 1
\* most descriptors classified at once by filter_matched_files alone
MaxClassify == 3
\* most scenes get_stash_scenes returns to run_stash_sync
MaxScenes == 3
\* most pages the catalog serves before it runs empty
MaxPages == 3
\* most calls of run_all_imports in interval mode
MaxRuns == 2

-----------------------------------------------------------------------------
(* Strings and paths *)

\* "/"
Sep == <<47>>

\* IMPORT_FOLDER, "/import"
IMPORT_FOLDER == <<47, 105, 109, 112, 111, 114, 116>>

\* directory names the file system may hold: "A" and "A-" ("-" sorts before "/")
DirNames == {<<65>>, <<65, 45>>}

\* direct file counts a directory may have
FileCounts == {0, 3, 5}

Min(a, b) == IF a <= b THEN a ELSE b

\* Python's str <: lexicographic on the character codes, a proper prefix is smaller
StrLess(a, b) ==
    \E k \in 1..(Min(Len(a), Len(b)) + 1) :
        /\ \A m \in 1..(k - 1) : a[m] = b[m]
        /\ \/ k > Len(a) /\ k <= Len(b)
           \/ k <= Len(a) /\ k <= Len(b) /\ a[k] < b[k]

\* os.path.join(path, item)
PathJoin(path, item) == path \o Sep \o item

\* number of path separators in a string
SepCount(s) == Cardinality({k \in DOMAIN s : s[k] = 47})

\* distance of a path below IMPORT_FOLDER (its direct children are at 1)
DirDepth(path) == SepCount(path) - SepCount(IMPORT_FOLDER)

\* the sequences without repetition over a set (the orders os.listdir may return)
Perms(S) == {s \in UNION {[1..n -> S] : n \in 0..Cardinality(S)} :
                \A a, b \in DOMAIN s : a # b => s[a] # s[b]}

-----------------------------------------------------------------------------
(* get_all_subfolders_recursive *)

\* count_files_in_folder: the number of direct files, 0 when the listing raises
count_files_in_folder(nfiles, readable) == IF readable THEN nfiles ELSE 0

\* a guard that lets one more level through
DepthExceededOffByOne(current_depth, limit) == current_depth > limit + 1

\* the guard of scan_directory: "if current_depth > max_depth: return"
DepthExceeded(current_depth, limit) == current_depth > limit

\* a key that puts the emptier folder first
SortKeyFewestFirst(x) == <<-x[2], x[3], x[1]>>

\* the sort key, lambda x: (-x[1], -x[2], x[0]), of an entry <<path, depth, file_count>>
SortKey(x) == <<-x[2], -x[3], x[1]>>

\* Python's tuple <: on the first component that differs
KeyLess(k1, k2) ==
    \/ k1[1] < k2[1]
    \/ k1[1] = k2[1] /\ k1[2] < k2[2]
    \/ k1[1] = k2[1] /\ k1[2] = k2[2] /\ StrLess(k1[3], k2[3])

\* x goes after every element that is not greater than it (list.sort is stable)
RECURSIVE InsertByKey(_, _)
InsertByKey(x, s) ==
    IF s = <<>> THEN <<x>>
    ELSE IF KeyLess(SortKey(x), SortKey(Head(s))) THEN <<x>> \o s
    ELSE <<Head(s)>> \o InsertByKey(x, Tail(s))

\* all_folders.sort(key=...)
RECURSIVE SortFolders(_)
SortFolders(s) ==
    IF s = <<>> THEN <<>>
    ELSE InsertByKey(s[Len(s)], SortFolders(SubSeq(s, 1, Len(s) - 1)))

Top == stack[Len(stack)]
Pop == SubSeq(stack, 1, Len(stack) - 1)

RECURSIVE PendingDirs(_)
PendingDirs(st) ==
    IF st = <<>> THEN 0 ELSE Len(st[1].subfolders) + PendingDirs(Tail(st))

\* what is left of the MaxDirs budget
DirBudget == MaxDirs - Len(all_folders) - PendingDirs(stack)

IdleScan ==
    /\ max_depth = 0
    /\ scan_pc = "idle"
    /\ stack = <<>>
    /\ all_folders = <<>>
    /\ listed = {}
    /\ pruned = {}

\* get_all_subfolders_recursive(IMPORT_FOLDER, max_depth) up to scan_directory(root_path, 1)
StartScan ==
    /\ max_depth \in 0..MaxDepthArg
    /\ scan_pc = "scanning"
    /\ stack = <<[path |-> IMPORT_FOLDER, current_depth |-> 1, pc |-> "enter",
                  subfolders |-> <<>>]>>
    /\ all_folders = <<>>
    /\ listed = {}
    /\ pruned = {}

\* scan_directory: current_depth > max_depth, return
ScanDepthExceeded ==
    /\ scan_pc = "scanning" /\ stack # <<>> /\ Top.pc = "enter"
    /\ DepthExceeded(Top.current_depth, max_depth)
    /\ pruned' = pruned \cup {Top.path}
    /\ stack' = Pop
    /\ UNCHANGED <<max_depth, scan_pc, all_folders, listed, notScanVars>>

\* scan_directory: os.listdir(path) and the isdir filter
ScanListDir ==
    /\ scan_pc = "scanning" /\ stack # <<>> /\ Top.pc = "enter"
    /\ ~DepthExceeded(Top.current_depth, max_depth)
    /\ \E items \in Perms(DirNames) :
        /\ Len(items) <= DirBudget
        /\ stack' = [stack EXCEPT ![Len(stack)] =
                        [@ EXCEPT !.pc = "loop",
                                  !.subfolders = [k \in DOMAIN items |->
                                                    PathJoin(Top.path, items[k])]]]
    /\ listed' = listed \cup {Top.path}
    /\ UNCHANGED <<max_depth, scan_pc, all_folders, pruned, notScanVars>>

\* scan_directory: os.listdir raises, the warning is printed and the call returns
ScanListDirError ==
    /\ scan_pc = "scanning" /\ stack # <<>> /\ Top.pc = "enter"
    /\ ~DepthExceeded(Top.current_depth, max_depth)
    /\ listed' = listed \cup {Top.path}
    /\ stack' = Pop
    /\ UNCHANGED <<max_depth, scan_pc, all_folders, pruned, notScanVars>>

\* scan_directory: one iteration of "for subfolder in subfolders"
ScanSubfolder ==
    /\ scan_pc = "scanning" /\ stack # <<>> /\ Top.pc = "loop"
    /\ Top.subfolders # <<>>
    /\ \E nfiles \in FileCounts, readable \in BOOLEAN :
        LET subfolder == Head(Top.subfolders)
            file_count == count_files_in_folder(nfiles, readable)
        IN  /\ all_folders' = Append(all_folders,
                                     <<subfolder, Top.current_depth, file_count>>)
            /\ stack' = Append([stack EXCEPT ![Len(stack)].subfolders = Tail(@)],
                               [path |-> subfolder,
                                current_depth |-> Top.current_depth + 1,
                                pc |-> "enter", subfolders |-> <<>>])
    /\ UNCHANGED <<max_depth, scan_pc, listed, pruned, notScanVars>>

\* scan_directory: the loop is over, return
ScanReturn ==
    /\ scan_pc = "scanning" /\ stack # <<>> /\ Top.pc = "loop"
    /\ Top.subfolders = <<>>
    /\ stack' = Pop
    /\ UNCHANGED <<max_depth, scan_pc, all_folders, listed, pruned, notScanVars>>

\* get_all_subfolders_recursive: all_folders.sort(...) and return
SortAndReturn ==
    /\ scan_pc = "scanning" /\ stack = <<>>
    /\ all_folders' = SortFolders(all_folders)
    /\ scan_pc' = "done"
    /\ UNCHANGED <<max_depth, stack, listed, pruned, notScanVars>>

NextScan ==
    \/ ScanDepthExceeded
    \/ ScanListDir
    \/ ScanListDirError
    \/ ScanSubfolder
    \/ ScanReturn
    \/ SortAndReturn


-----------------------------------------------------------------------------
(* Remote file descriptors *)

\* A "scene" or "movie" value of a descriptor: absent or None ("none"), an empty
\* dict ("empty"), or a dict with fields ("dict"); id 0 stands for a missing, None
\* or zero "id".
NoEntity == [kind |-> "none", id |-> 0]
EmptyEntity == [kind |-> "empty", id |-> 0]
EntityNoId == [kind |-> "dict", id |-> 0]
Entity(n) == [kind |-> "dict", id |-> n]

\* Python truth of a scene/movie value: None and {} are false
Truthy(e) == e.kind = "dict"

\* the values "scene" takes, and the values "movie" takes
SceneValues == {NoEntity, EmptyEntity, EntityNoId, Entity(1)}
MovieValues == {NoEntity, EmptyEntity, EntityNoId, Entity(2)}

\* the "rejections" a descriptor carries
RejectionLists == {<<>>, <<[reason |-> "Unknown scene"]>>}

\* a descriptor; the path is its position in the response
Descriptor(n, sc, mv, rj) == [path |-> n, scene |-> sc, movie |-> mv, rejections |-> rj]

\* the descriptor kinds classified by filter_matched_files alone: every pair of a
\* scene and a movie value, and the kinds without an id also with a rejection
ClassifyKinds ==
    (SceneValues \X MovieValues \X {<<>>})
        \cup ({NoEntity, EntityNoId} \X {NoEntity} \X (RejectionLists \ {<<>>}))

\* the response whose k-th descriptor is of kind f[k]
ClassifyInput(f) == [k \in DOMAIN f |-> Descriptor(k, f[k][1], f[k][2], f[k][3])]

\* the descriptor kinds the file import pipeline is run on: a scene with an id
\* beside a movie with another id, a movie with an id under a scene without one,
\* an entity without id, no entity
PipelineKinds ==
    {<<Entity(1), Entity(2), <<>>>>, <<EntityNoId, Entity(2), <<>>>>,
     <<EntityNoId, NoEntity, <<>>>>, <<NoEntity, NoEntity, <<[reason |-> "Unknown scene"]>>>>}

PipelineFileLists ==
    UNION {
        {[k \in 1..n |-> Descriptor(k, f[k][1], f[k][2], f[k][3])] :
            f \in [1..n -> PipelineKinds]}
        : n \in 0..MaxFiles}

-----------------------------------------------------------------------------
(* filter_matched_files *)

\* [r.get("reason", "Unknown") for r in rejections]
Reasons(rejections) == [k \in DOMAIN rejections |-> rejections[k].reason]

\* the scene_id filter_matched_files resolves (0 for None)
scene_id_of(file) ==
    IF Truthy(file.scene) /\ file.scene.id # 0 THEN file.scene.id
    ELSE IF Truthy(file.movie) /\ file.movie.id # 0 THEN file.movie.id
    ELSE 0

PotentialEntry(file) ==
    [file |-> file, scene_title |-> "Unknown", rejections |-> Reasons(file.rejections)]

UnmatchedEntry(file) ==
    [path |-> file.path,
     rejections |-> IF file.rejections # <<>> THEN Reasons(file.rejections)
                    ELSE <<"No scene/movie data in response">>]

\* the loop body with "if" in place of the first "elif"
filter_step_no_elif(acc, file) ==
    LET m == IF scene_id_of(file) # 0 THEN Append(acc.matched, file) ELSE acc.matched
    IN  IF Truthy(file.scene) \/ Truthy(file.movie)
        THEN [acc EXCEPT !.matched = m,
                         !.potential = Append(@, PotentialEntry(file))]
        ELSE [acc EXCEPT !.matched = m,
                         !.unmatched = Append(@, UnmatchedEntry(file))]

\* one iteration of "for file in files"
filter_step(acc, file) ==
    IF scene_id_of(file) # 0
    THEN [acc EXCEPT !.matched = Append(@, file)]
    ELSE IF Truthy(file.scene) \/ Truthy(file.movie)
    THEN [acc EXCEPT !.potential = Append(@, PotentialEntry(file))]
    ELSE [acc EXCEPT !.unmatched = Append(@, UnmatchedEntry(file))]

RECURSIVE filter_from(_, _)
filter_from(files, acc) ==
    IF files = <<>> THEN acc ELSE filter_from(Tail(files), filter_step(acc, Head(files)))

\* a classification that forgets the potential matches
filter_matched_files_without_potential(files) ==
    [filter_from(files, [matched |-> <<>>, potential |-> <<>>, unmatched |-> <<>>])
        EXCEPT !.potential = <<>>]

filter_matched_files(files) ==
    filter_from(files, [matched |-> <<>>, potential |-> <<>>, unmatched |-> <<>>])

-----------------------------------------------------------------------------
(* import_file_batch *)

\* a resolution that only looks at the scene
entity_id_of_scene_only(file) ==
    IF Truthy(file.scene) /\ file.scene.id # 0 THEN file.scene.id ELSE 0

\* the entity_id import_file_batch resolves (0 for None)
entity_id_of(file) ==
    IF Truthy(file.scene) /\ file.scene.id # 0 THEN file.scene.id
    ELSE IF Truthy(file.movie) /\ file.movie.id # 0 THEN file.movie.id
    ELSE 0

\* formatted_files: the files with an entity id, in order
RECURSIVE formatted_files_of(_)
formatted_files_of(batch) ==
    IF batch = <<>> THEN <<>>
    ELSE IF entity_id_of(Head(batch)) = 0 THEN formatted_files_of(Tail(batch))
    ELSE <<[path |-> Head(batch).path, movieId |-> entity_id_of(Head(batch))]>>
            \o formatted_files_of(Tail(batch))

\* what the import target answers to POST /api/v3/command
ImportResponses == {"queued", "no_id", "http_error", "timeout"}

\* an import_file_batch that does not look at the dry-run flag
import_file_batch_always_posts(dry, batch, resp) ==
    LET formatted_files == formatted_files_of(batch)
    IN  IF formatted_files = <<>>
        THEN [success |-> FALSE, posted |-> FALSE, request |-> <<>>]
        ELSE [success |-> resp = "queued", posted |-> TRUE, request |-> formatted_files]

\* import_file_batch: success is the value returned, posted tells whether the POST
\* was sent, request is its "files"
import_file_batch(dry, batch, resp) ==
    IF dry THEN [success |-> TRUE, posted |-> FALSE, request |-> <<>>]
    ELSE LET formatted_files == formatted_files_of(batch)
         IN  IF formatted_files = <<>>
             THEN [success |-> FALSE, posted |-> FALSE, request |-> <<>>]
             ELSE [success |-> resp = "queued", posted |-> TRUE,
                   request |-> formatted_files]

-----------------------------------------------------------------------------
(* get_files_to_import, process_file_folder, run_file_import *)

\* what the import target answers to GET /api/v3/manualimport
QueryResponses ==
    {[kind |-> "timeout", files |-> <<>>], [kind |-> "error", files |-> <<>>]}
        \cup {[kind |-> "ok", files |-> fl] : fl \in PipelineFileLists}

\* get_files_to_import: response.json(), or [] on a timeout or a request error
get_files_to_import(resp) == IF resp.kind = "ok" THEN resp.files ELSE <<>>

\* a slice that stops one element early
BatchSliceShort(list, start, size) ==
    SubSeq(list, start + 1, Min(start + size - 1, Len(list)))

\* a slice that runs one element into the next one
BatchSliceOverlap(list, start, size) ==
    SubSeq(list, start + 1, Min(start + size + 1, Len(list)))

\* matched[i:i+FILE_BATCH_SIZE]
BatchSlice(list, start, size) == SubSeq(list, start + 1, Min(start + size, Len(list)))

\* the folders a discovery may return: sorted lists over two folders
FolderUniverse ==
    { <<PathJoin(IMPORT_FOLDER, <<65>>), 1, 5>>,
      <<PathJoin(PathJoin(IMPORT_FOLDER, <<65>>), <<65, 45>>), 2, 3>> }

\* the number of files directly in the import folder (it is only printed)
RootFileCounts == {5}

DiscoveredLists == {SortFolders(s) : s \in Perms(FolderUniverse)}

\* a cut that keeps everything
TruncateNever(all_subfolders, cap) == all_subfolders

\* "if MAX_SUBFOLDERS and len(all_subfolders) > MAX_SUBFOLDERS: all_subfolders[:MAX_SUBFOLDERS]"
Truncate(all_subfolders, cap) ==
    IF cap # 0 /\ Len(all_subfolders) > cap THEN SubSeq(all_subfolders, 1, cap)
    ELSE all_subfolders

ZeroFileStats ==
    [subfolders_processed |-> 0, files_imported |-> 0, files_unmatched |-> 0,
     batches_processed |-> 0]

NoFolderLocals ==
    /\ all_files = <<>>
    /\ matched = <<>>
    /\ potential = <<>>
    /\ unmatched = <<>>
    /\ file_i = 0
    /\ successful_batches = 0
    /\ submitted = <<>>
    /\ last_request = <<>>

IdleFiles ==
    /\ FILE_BATCH_SIZE = 1
    /\ MAX_SUBFOLDERS = 0
    /\ PROCESS_ROOT_FILES = FALSE
    /\ file_pc = "idle"
    /\ folders_to_process = <<>>
    /\ idx = 0
    /\ NoFolderLocals
    /\ file_posts = 0
    /\ queried = <<>>
    /\ returned = 0
    /\ query_kinds = <<>>
    /\ discovery = <<>>
    /\ formed = 0
    /\ total_stats_files = ZeroFileStats
    /\ file_result = "none"

\* filter_matched_files called on a response
StartClassify ==
    /\ FILE_BATCH_SIZE = 1
    /\ MAX_SUBFOLDERS = 0
    /\ PROCESS_ROOT_FILES = FALSE
    /\ file_pc = "classify"
    /\ folders_to_process = <<>>
    /\ idx = 0
    /\ \E n \in 0..MaxClassify : \E f \in [1..n -> ClassifyKinds] :
            all_files = ClassifyInput(f)
    /\ matched = <<>>
    /\ potential = <<>>
    /\ unmatched = <<>>
    /\ file_i = 0
    /\ successful_batches = 0
    /\ submitted = <<>>
    /\ last_request = <<>>
    /\ file_posts = 0
    /\ queried = <<>>
    /\ returned = 0
    /\ query_kinds = <<>>
    /\ discovery = <<>>
    /\ formed = 0
    /\ total_stats_files = ZeroFileStats
    /\ file_result = "none"

\* run_file_import is entered with zeroed statistics
StartFiles ==
    /\ FILE_BATCH_SIZE \in 1..MaxBatch
    /\ MAX_SUBFOLDERS \in 0..MaxCap
    /\ PROCESS_ROOT_FILES \in BOOLEAN
    /\ file_pc = "start"
    /\ folders_to_process = <<>>
    /\ idx = 0
    /\ NoFolderLocals
    /\ file_posts = 0
    /\ queried = <<>>
    /\ returned = 0
    /\ query_kinds = <<>>
    /\ discovery = <<>>
    /\ formed = 0
    /\ total_stats_files = ZeroFileStats
    /\ file_result = "none"

\* filter_matched_files
FilterMatchedFiles ==
    /\ file_pc = "classify"
    /\ LET r == filter_matched_files(all_files)
       IN  /\ matched' = r.matched
           /\ potential' = r.potential
           /\ unmatched' = r.unmatched
    /\ file_pc' = "classified"
    /\ UNCHANGED <<notFileVars, fileCfg, folders_to_process, idx, all_files, file_i,
                   successful_batches, submitted, last_request, file_posts, queried,
                   returned, query_kinds, discovery, formed, total_stats_files,
                   file_result>>

\* run_file_import: the import folder does not exist
RunFileImportNoFolder ==
    /\ file_pc = "start"
    /\ file_pc' = "done"
    /\ file_result' = FALSE
    /\ UNCHANGED <<notFileVars, fileCfg, folders_to_process, idx, folderVars,
                   file_posts, queried, returned, query_kinds, discovery, formed,
                   total_stats_files>>

\* run_file_import: discovery, the MAX_SUBFOLDERS cut and the root folder entry
RunFileImportDiscover ==
    /\ file_pc = "start"
    /\ \E discovered \in DiscoveredLists, nfiles \in RootFileCounts :
        LET all_subfolders == Truncate(discovered, MAX_SUBFOLDERS)
            root_file_count == count_files_in_folder(nfiles, TRUE)
            ftp == (IF PROCESS_ROOT_FILES
                    THEN << <<IMPORT_FOLDER, 0, root_file_count>> >> ELSE <<>>)
                   \o all_subfolders
        IN  /\ folders_to_process' = ftp
            /\ discovery' = discovered
            /\ IF ftp = <<>>
               THEN file_pc' = "done" /\ file_result' = TRUE /\ idx' = idx
               ELSE file_pc' = "folder" /\ file_result' = file_result /\ idx' = 1
    /\ UNCHANGED <<notFileVars, fileCfg, folderVars, file_posts, queried, returned,
                   query_kinds, formed, total_stats_files>>

\* a loop that gives up at the first folder that yields nothing
AccumulateAbortOnEmpty(stats) ==
    IF stats = [imported |-> 0, unmatched |-> 0, batches |-> 0]
    THEN /\ total_stats_files' = total_stats_files
         /\ idx' = idx
         /\ file_pc' = "done"
         /\ file_result' = FALSE
    ELSE /\ total_stats_files' =
            [subfolders_processed |-> total_stats_files.subfolders_processed + 1,
             files_imported |-> total_stats_files.files_imported + stats.imported,
             files_unmatched |-> total_stats_files.files_unmatched + stats.unmatched,
             batches_processed |-> total_stats_files.batches_processed + stats.batches]
         /\ idx' = idx + 1
         /\ IF idx < Len(folders_to_process)
            THEN file_pc' = "folder" /\ file_result' = file_result
            ELSE file_pc' = "done" /\ file_result' = TRUE

\* run_file_import: the statistics of one folder are added and the loop moves on
Accumulate(stats) ==
    /\ total_stats_files' =
        [subfolders_processed |-> total_stats_files.subfolders_processed + 1,
         files_imported |-> total_stats_files.files_imported + stats.imported,
         files_unmatched |-> total_stats_files.files_unmatched + stats.unmatched,
         batches_processed |-> total_stats_files.batches_processed + stats.batches]
    /\ idx' = idx + 1
    /\ IF idx < Len(folders_to_process)
       THEN file_pc' = "folder" /\ file_result' = file_result
       ELSE file_pc' = "done" /\ file_result' = TRUE

\* process_file_folder returning before the batch loop: nothing found, or nothing matched
ProcessFolderNoImport ==
    /\ file_pc = "folder"
    /\ \E resp \in QueryResponses :
        LET files == get_files_to_import(resp)
            r == filter_matched_files(files)
        IN  /\ Len(files) <= MaxFiles - returned
            /\ returned' = returned + Len(files)
            /\ query_kinds' = Append(query_kinds, resp.kind)
            /\ r.matched = <<>>
            /\ Accumulate(IF files = <<>>
                          THEN [imported |-> 0, unmatched |-> 0, batches |-> 0]
                          ELSE [imported |-> 0,
                                unmatched |-> Len(r.unmatched) + Len(r.potential),
                                batches |-> 0])
    /\ queried' = Append(queried, folders_to_process[idx][1])
    /\ UNCHANGED <<notFileVars, fileCfg, folders_to_process, folderVars, file_posts,
                   discovery, formed>>

\* process_file_folder up to the batch loop
ProcessFolderQuery ==
    /\ file_pc = "folder"
    /\ \E resp \in QueryResponses :
        LET files == get_files_to_import(resp)
            r == filter_matched_files(files)
        IN  /\ Len(files) <= MaxFiles - returned
            /\ returned' = returned + Len(files)
            /\ query_kinds' = Append(query_kinds, resp.kind)
            /\ r.matched # <<>>
            /\ all_files' = files
            /\ matched' = r.matched
            /\ potential' = r.potential
            /\ unmatched' = r.unmatched
    /\ file_i' = 0
    /\ successful_batches' = 0
    /\ submitted' = <<>>
    /\ last_request' = <<>>
    /\ file_pc' = "batches"
    /\ queried' = Append(queried, folders_to_process[idx][1])
    /\ UNCHANGED <<notFileVars, fileCfg, folders_to_process, idx, file_posts,
                   discovery, formed, total_stats_files, file_result>>

\* process_file_folder: one iteration of the batch loop
ImportBatch ==
    /\ file_pc = "batches"
    /\ file_i < Len(matched)
    /\ \E resp \in ImportResponses :
        LET batch == BatchSlice(matched, file_i, FILE_BATCH_SIZE)
            res == import_file_batch(DRY_RUN, batch, resp)
        IN  /\ submitted' = Append(submitted, batch)
            /\ successful_batches' = successful_batches + (IF res.success THEN 1 ELSE 0)
            /\ file_posts' = file_posts + (IF res.posted THEN 1 ELSE 0)
            /\ last_request' = res.request
    /\ formed' = formed + 1
    /\ file_i' = file_i + FILE_BATCH_SIZE
    /\ UNCHANGED <<notFileVars, fileCfg, file_pc, folders_to_process, idx, all_files,
                   matched, potential, unmatched, queried, returned, query_kinds,
                   discovery, total_stats_files, file_result>>

\* process_file_folder returns after the batch loop
FinishFolder ==
    /\ file_pc = "batches"
    /\ file_i >= Len(matched)
    /\ Accumulate([imported |-> Len(matched),
                   unmatched |-> Len(unmatched) + Len(potential),
                   batches |-> successful_batches])
    /\ all_files' = <<>>
    /\ matched' = <<>>
    /\ potential' = <<>>
    /\ unmatched' = <<>>
    /\ file_i' = 0
    /\ successful_batches' = 0
    /\ submitted' = <<>>
    /\ last_request' = <<>>
    /\ UNCHANGED <<notFileVars, fileCfg, folders_to_process, file_posts, queried,
                   returned, query_kinds, discovery, formed>>

NextClassify == FilterMatchedFiles

NextFiles ==
    \/ RunFileImportNoFolder
    \/ RunFileImportDiscover
    \/ ProcessFolderNoImport
    \/ ProcessFolderQuery
    \/ ImportBatch
    \/ FinishFolder


-----------------------------------------------------------------------------
(* Catalog sync: filter_stashdb_scenes, add_scene_to_whisparr, process_stash_batch,
   run_stash_sync *)

\* the external ids in play
StashIds == {1, 2}

StashDBEndpoint == "https://stashdb.org/graphql"
OtherEndpoint == "https://theporndb.net/graphql"

\* "stashdb.org" in endpoint
IsStashDB(endpoint) == endpoint = StashDBEndpoint

StashIdEntry(endpoint, id) == [endpoint |-> endpoint, stash_id |-> id]

\* the catalog entries get_stash_scenes may return, each by its stash_ids
SceneKinds ==
    { [stash_ids |-> <<>>],
      [stash_ids |-> <<StashIdEntry(OtherEndpoint, 1)>>],
      [stash_ids |-> <<StashIdEntry(StashDBEndpoint, 1)>>],
      [stash_ids |-> <<StashIdEntry(StashDBEndpoint, 2)>>],
      [stash_ids |-> <<StashIdEntry(OtherEndpoint, 2), StashIdEntry(StashDBEndpoint, 1)>>],
      [stash_ids |-> <<StashIdEntry(StashDBEndpoint, 2), StashIdEntry(StashDBEndpoint, 1)>>] }

SceneLists == UNION {[1..n -> SceneKinds] : n \in 0..MaxScenes}

\* the first stash id of a scene with a StashDB endpoint, 0 when there is none
RECURSIVE first_stashdb_id(_)
first_stashdb_id(stash_ids) ==
    IF stash_ids = <<>> THEN 0
    ELSE IF IsStashDB(Head(stash_ids).endpoint) THEN Head(stash_ids).stash_id
    ELSE first_stashdb_id(Tail(stash_ids))

\* filter_stashdb_scenes
RECURSIVE filter_stashdb_scenes(_)
filter_stashdb_scenes(scenes) ==
    IF scenes = <<>> THEN <<>>
    ELSE LET id == first_stashdb_id(Head(scenes).stash_ids)
         IN  (IF id # 0 THEN <<[stash_id |-> id]>> ELSE <<>>)
                \o filter_stashdb_scenes(Tail(scenes))

\* what get_whisparr_movies returns: the "stashId" of each movie, 0 for a movie
\* without one; a timeout or a request error gives []
MovieResponses == SUBSET (StashIds \cup {0})

\* {m.get("stashId") for m in existing_movies if m.get("stashId")}
existing_ids_of(movies) == {m \in movies : m # 0}

\* what the import target answers to POST /api/v3/movie
AddResponses ==
    {"created", "400_exists", "400_validation", "400_other", "404", "500", "network"}

\* an add_scene_to_whisparr that does not look at the dry-run flag
add_scene_always_posts(dry, resp) ==
    CASE resp = "created" -> [success |-> TRUE, posted |-> TRUE, exists |-> 0]
      [] resp = "400_exists" -> [success |-> TRUE, posted |-> TRUE, exists |-> 1]
      [] OTHER -> [success |-> FALSE, posted |-> TRUE, exists |-> 0]

\* add_scene_to_whisparr: success is the value returned, posted tells whether the
\* POST was sent, exists is what it adds to scenes_already_exist
add_scene_to_whisparr(dry, resp) ==
    IF dry THEN [success |-> TRUE, posted |-> FALSE, exists |-> 0]
    ELSE CASE resp = "created" -> [success |-> TRUE, posted |-> TRUE, exists |-> 0]
           [] resp = "400_exists" -> [success |-> TRUE, posted |-> TRUE, exists |-> 1]
           [] OTHER -> [success |-> FALSE, posted |-> TRUE, exists |-> 0]

\* a check that never finds the id
NeverExisting(stash_id, existing) == FALSE

\* "if stash_id in existing_stash_ids"
IsExisting(stash_id, existing) == stash_id \in existing

ZeroStashStats ==
    [scenes_found |-> 0, scenes_with_stashdb |-> 0, scenes_added |-> 0,
     scenes_already_exist |-> 0, scenes_failed |-> 0, batches_processed |-> 0]

IdleStash ==
    /\ STASH_BATCH_SIZE = 1
    /\ stash_pc = "idle"
    /\ existing_stash_ids = {}
    /\ fetched_ids = {}
    /\ stashdb_scenes = <<>>
    /\ stash_i = 0
    /\ stash_j = 1
    /\ added = 0
    /\ failed = 0
    /\ stash_posts = 0
    /\ outcomes = <<>>
    /\ total_stats_stash = ZeroStashStats
    /\ stash_result = "none"

\* run_stash_sync is entered with zeroed statistics
StartStash ==
    /\ STASH_BATCH_SIZE \in 1..MaxBatch
    /\ stash_pc = "start"
    /\ existing_stash_ids = {}
    /\ fetched_ids = {}
    /\ stashdb_scenes = <<>>
    /\ stash_i = 0
    /\ stash_j = 1
    /\ added = 0
    /\ failed = 0
    /\ stash_posts = 0
    /\ outcomes = <<>>
    /\ total_stats_stash = ZeroStashStats
    /\ stash_result = "none"

\* run_stash_sync: get_root_folders returned nothing
StashNoRootFolders ==
    /\ stash_pc = "start"
    /\ stash_pc' = "done"
    /\ stash_result' = FALSE
    /\ UNCHANGED <<notStashVars, STASH_BATCH_SIZE, existing_stash_ids, fetched_ids,
                   stashdb_scenes, stash_i, stash_j, added, failed, stash_posts, outcomes,
                   total_stats_stash>>

\* run_stash_sync: the existing movies, the catalog scenes and the filter, up to the
\* batch loop
StashFetch ==
    /\ stash_pc = "start"
    /\ \E movies \in MovieResponses, all_scenes \in SceneLists :
        LET filtered == filter_stashdb_scenes(all_scenes)
        IN  /\ existing_stash_ids' = existing_ids_of(movies)
            /\ fetched_ids' = existing_ids_of(movies)
            /\ total_stats_stash' =
                [total_stats_stash EXCEPT
                    !.scenes_found = Len(all_scenes),
                    !.scenes_with_stashdb =
                        IF all_scenes = <<>> THEN @ ELSE Len(filtered)]
            /\ IF all_scenes = <<>> \/ filtered = <<>>
               THEN /\ stash_pc' = "done"
                    /\ stash_result' = TRUE
                    /\ stashdb_scenes' = <<>>
               ELSE /\ stash_pc' = "batch"
                    /\ stash_result' = stash_result
                    /\ stashdb_scenes' = filtered
    /\ stash_i' = 0
    /\ stash_j' = 1
    /\ added' = 0
    /\ failed' = 0
    /\ UNCHANGED <<notStashVars, STASH_BATCH_SIZE, stash_posts, outcomes>>

\* stashdb_scenes[i:i+STASH_BATCH_SIZE]
StashBatch == BatchSlice(stashdb_scenes, stash_i, STASH_BATCH_SIZE)

\* process_stash_batch: a scene whose id is in existing_stash_ids
ProcessSceneExisting ==
    /\ stash_pc = "batch"
    /\ stash_j <= Len(StashBatch)
    /\ IsExisting(StashBatch[stash_j].stash_id, existing_stash_ids)
    /\ total_stats_stash' =
        [total_stats_stash EXCEPT !.scenes_already_exist = @ + 1]
    /\ added' = added + 1
    /\ outcomes' = Append(outcomes, "skipped_exists")
    /\ stash_j' = stash_j + 1
    /\ UNCHANGED <<notStashVars, STASH_BATCH_SIZE, stash_pc, existing_stash_ids, fetched_ids,
                   stashdb_scenes, stash_i, failed, stash_posts, stash_result>>

\* process_stash_batch: a scene handed to add_scene_to_whisparr
ProcessSceneAdd ==
    /\ stash_pc = "batch"
    /\ stash_j <= Len(StashBatch)
    /\ ~IsExisting(StashBatch[stash_j].stash_id, existing_stash_ids)
    /\ \E resp \in AddResponses :
        LET stash_id == StashBatch[stash_j].stash_id
            res == add_scene_to_whisparr(DRY_RUN, resp)
        IN  /\ total_stats_stash' =
                [total_stats_stash EXCEPT !.scenes_already_exist = @ + res.exists]
            /\ stash_posts' = stash_posts + (IF res.posted THEN 1 ELSE 0)
            /\ IF res.success
               THEN /\ added' = added + 1
                    /\ failed' = failed
                    /\ existing_stash_ids' = existing_stash_ids \cup {stash_id}
               ELSE /\ added' = added
                    /\ failed' = failed + 1
                    /\ existing_stash_ids' = existing_stash_ids
            /\ outcomes' = Append(outcomes,
                                  IF ~res.posted THEN "dry_run"
                                  ELSE IF res.exists = 1 THEN "exists_400"
                                  ELSE IF res.success THEN "created" ELSE "failed")
    /\ stash_j' = stash_j + 1
    /\ UNCHANGED <<notStashVars, STASH_BATCH_SIZE, stash_pc, fetched_ids, stashdb_scenes,
                   stash_i, stash_result>>

\* process_stash_batch returns and run_stash_sync adds its statistics
FinishStashBatch ==
    /\ stash_pc = "batch"
    /\ stash_j > Len(StashBatch)
    /\ total_stats_stash' =
        [total_stats_stash EXCEPT !.scenes_added = @ + added,
                                  !.scenes_failed = @ + failed,
                                  !.batches_processed = @ + 1]
    /\ stash_i' = stash_i + STASH_BATCH_SIZE
    /\ stash_j' = 1
    /\ added' = 0
    /\ failed' = 0
    /\ IF stash_i + STASH_BATCH_SIZE < Len(stashdb_scenes)
       THEN stash_pc' = "batch" /\ stash_result' = stash_result
       ELSE stash_pc' = "done" /\ stash_result' = TRUE
    /\ UNCHANGED <<notStashVars, STASH_BATCH_SIZE, existing_stash_ids, fetched_ids,
                   stashdb_scenes, stash_posts, outcomes>>

NextStash ==
    \/ StashNoRootFolders
    \/ StashFetch
    \/ ProcessSceneExisting
    \/ ProcessSceneAdd
    \/ FinishStashBatch

-----------------------------------------------------------------------------
(* get_stash_scenes *)

\* the page size asked of the catalog
per_page == 100

\* the numbers of scenes on a page, and the totals the catalog reports ("count",
\* 0 when it is missing)
PageSizes == {0, 1, per_page - 1, per_page}
TotalCounts == {0, 1, per_page, per_page + 1, 2 * per_page, MaxPages * per_page + 1}

\* "if not scenes: break"
PageIsEmpty(n) == n = 0

\* a comparison that misses the exact total
ReachedTotalStrict(count, total_count) == count > total_count

\* "if len(all_scenes) >= total_count: break"
ReachedTotal(count, total_count) == count >= total_count

IdlePaging ==
    /\ page_pc = "idle"
    /\ page = 1
    /\ fetched = 0
    /\ last_kind = "none"
    /\ last_items = 0
    /\ last_total = 0
    /\ page_requests = 0

\* get_stash_scenes up to the loop
StartPaging ==
    /\ page_pc = "loop"
    /\ page = 1
    /\ fetched = 0
    /\ last_kind = "none"
    /\ last_items = 0
    /\ last_total = 0
    /\ page_requests = 0

\* the catalog has at most MaxPages pages with scenes on them: what it answers
\* to a request for a later page is empty, unless the total is reached with it
CatalogServes(n, total_count) ==
    page > MaxPages => PageIsEmpty(n) \/ fetched + n >= total_count

\* one iteration of the loop: the request raises a RequestException
FetchPageException ==
    /\ page_pc = "loop"
    /\ page_requests' = page_requests + 1
    /\ last_kind' = "exception"
    /\ page_pc' = "done"
    /\ UNCHANGED <<notPageVars, page, fetched, last_items, last_total>>

\* one iteration of the loop: the answer carries "errors"
FetchPageErrors ==
    /\ page_pc = "loop"
    /\ page_requests' = page_requests + 1
    /\ last_kind' = "errors"
    /\ page_pc' = "done"
    /\ UNCHANGED <<notPageVars, page, fetched, last_items, last_total>>

\* one iteration of the loop: the answer carries n scenes and a total
FetchPage ==
    /\ page_pc = "loop"
    /\ \E n \in PageSizes, total_count \in TotalCounts :
        /\ CatalogServes(n, total_count)
        /\ last_items' = n
        /\ last_total' = total_count
        /\ IF PageIsEmpty(n)
           THEN /\ fetched' = fetched
                /\ page' = page
                /\ page_pc' = "done"
           ELSE /\ fetched' = fetched + n
                /\ IF ReachedTotal(fetched + n, total_count)
                   THEN page' = page /\ page_pc' = "done"
                   ELSE page' = page + 1 /\ page_pc' = "loop"
    /\ page_requests' = page_requests + 1
    /\ last_kind' = "ok"
    /\ UNCHANGED notPageVars

NextPaging ==
    \/ FetchPageException
    \/ FetchPageErrors
    \/ FetchPage

-----------------------------------------------------------------------------
(* main, run_all_imports *)

ValidModes == {"both", "stash", "files"}
Modes == ValidModes \cup {"invalid"}
RunModes == {"once", "interval", "invalid"}

\* what a pipeline does when called: returns True, returns False, raises
PipelineOutcomes == {"ok", "failed", "raised"}

\* a check that forgets the API key
FatalConfigNoKeyCheck(whisparr_key, mode) == mode \notin ValidModes

\* main: the two checks that end the process before anything runs
FatalConfig(whisparr_key, mode) == ~whisparr_key \/ mode \notin ValidModes

\* a result that only remembers the pipeline that ran last
SuccessOfLastPipeline(ok, outcome) == outcome = "ok"

\* "if not run_stash_sync(): success = False", "except Exception: success = False",
\* and the same for run_file_import: success after a pipeline call
SuccessAfter(ok, outcome) == ok /\ outcome = "ok"

\* an exit code that is always 0
ExitCodeAlwaysZero(ok) == 0

\* sys.exit(0 if success else 1)
ExitCodeOf(ok) == IF ok THEN 0 ELSE 1

IdleMain ==
    /\ WHISPARR_API_KEY = TRUE
    /\ STASH_API_KEY = TRUE
    /\ MODE = "both"
    /\ RUN_MODE = "once"
    /\ main_pc = "idle"
    /\ success = TRUE
    /\ runs = 0
    /\ stash_invoked = 0
    /\ files_invoked = 0
    /\ stash_outcome = "none"
    /\ files_outcome = "none"
    /\ interrupted = FALSE
    /\ exit_code = "none"

\* the process starts
StartMain ==
    /\ WHISPARR_API_KEY \in BOOLEAN
    /\ STASH_API_KEY \in BOOLEAN
    /\ MODE \in Modes
    /\ RUN_MODE \in RunModes
    /\ main_pc = "main"
    /\ success = TRUE
    /\ runs = 0
    /\ stash_invoked = 0
    /\ files_invoked = 0
    /\ stash_outcome = "none"
    /\ files_outcome = "none"
    /\ interrupted = FALSE
    /\ exit_code = "none"

\* main: WHISPARR_API_KEY is missing or MODE is invalid, sys.exit(1)
MainFatalConfig ==
    /\ main_pc = "main"
    /\ FatalConfig(WHISPARR_API_KEY, MODE)
    /\ exit_code' = 1
    /\ main_pc' = "exited"
    /\ UNCHANGED <<notMainVars, mainCfg, success, runs, stash_invoked, files_invoked,
                   stash_outcome, files_outcome, interrupted>>

\* main: RUN_MODE is neither once nor interval, sys.exit(1)
MainInvalidRunMode ==
    /\ main_pc = "main"
    /\ ~FatalConfig(WHISPARR_API_KEY, MODE)
    /\ RUN_MODE \notin {"once", "interval"}
    /\ exit_code' = 1
    /\ main_pc' = "exited"
    /\ UNCHANGED <<notMainVars, mainCfg, success, runs, stash_invoked, files_invoked,
                   stash_outcome, files_outcome, interrupted>>

\* run_all_imports is entered: from main, once or as the first run of the interval
\* mode, or from schedule.run_pending
RunAllImportsEnter ==
    /\ \/ main_pc = "main" /\ ~FatalConfig(WHISPARR_API_KEY, MODE)
          /\ RUN_MODE \in {"once", "interval"}
       \/ main_pc = "returned" /\ RUN_MODE = "interval" /\ runs < MaxRuns
    /\ success' = TRUE
    /\ runs' = runs + 1
    /\ stash_outcome' = "none"
    /\ files_outcome' = "none"
    /\ main_pc' = "stash_step"
    /\ UNCHANGED <<notMainVars, mainCfg, stash_invoked, files_invoked, interrupted,
                   exit_code>>

\* run_all_imports: MODE is files, the catalog sync is not enabled
StashStepSkipped ==
    /\ main_pc = "stash_step"
    /\ MODE \notin {"both", "stash"}
    /\ stash_outcome' = "skipped"
    /\ main_pc' = "files_step"
    /\ UNCHANGED <<notMainVars, mainCfg, success, runs, stash_invoked, files_invoked,
                   files_outcome, interrupted, exit_code>>

\* run_all_imports: STASH_API_KEY is not set
StashStepNoKey ==
    /\ main_pc = "stash_step"
    /\ MODE \in {"both", "stash"}
    /\ ~STASH_API_KEY
    /\ success' = FALSE
    /\ stash_outcome' = "no_key"
    /\ main_pc' = "files_step"
    /\ UNCHANGED <<notMainVars, mainCfg, runs, stash_invoked, files_invoked, files_outcome,
                   interrupted, exit_code>>

\* run_all_imports: run_stash_sync is called
StashStepRun ==
    /\ main_pc = "stash_step"
    /\ MODE \in {"both", "stash"}
    /\ STASH_API_KEY
    /\ \E outcome \in PipelineOutcomes :
        /\ success' = SuccessAfter(success, outcome)
        /\ stash_outcome' = outcome
    /\ stash_invoked' = stash_invoked + 1
    /\ main_pc' = "files_step"
    /\ UNCHANGED <<notMainVars, mainCfg, runs, files_invoked, files_outcome, interrupted,
                   exit_code>>

\* run_all_imports: MODE is stash, the file import is not enabled
FilesStepSkipped ==
    /\ main_pc = "files_step"
    /\ MODE \notin {"both", "files"}
    /\ files_outcome' = "skipped"
    /\ main_pc' = "returned"
    /\ UNCHANGED <<notMainVars, mainCfg, success, runs, stash_invoked, files_invoked,
                   stash_outcome, interrupted, exit_code>>

\* run_all_imports: run_file_import is called
FilesStepRun ==
    /\ main_pc = "files_step"
    /\ MODE \in {"both", "files"}
    /\ \E outcome \in PipelineOutcomes :
        /\ success' = SuccessAfter(success, outcome)
        /\ files_outcome' = outcome
    /\ files_invoked' = files_invoked + 1
    /\ main_pc' = "returned"
    /\ UNCHANGED <<notMainVars, mainCfg, runs, stash_invoked, stash_outcome, interrupted,
                   exit_code>>

\* main, RUN_MODE once: sys.exit(0 if success else 1)
MainExitOnce ==
    /\ main_pc = "returned"
    /\ RUN_MODE = "once"
    /\ exit_code' = ExitCodeOf(success)
    /\ main_pc' = "exited"
    /\ UNCHANGED <<notMainVars, mainCfg, success, runs, stash_invoked, files_invoked,
                   stash_outcome, files_outcome, interrupted>>

\* KeyboardInterrupt, during a pipeline or in the waiting loop of the interval
\* mode: it is no Exception, so run_all_imports lets it through, and sys.exit(0)
KeyboardInterrupt ==
    /\ \/ main_pc \in {"stash_step", "files_step"}
       \/ main_pc = "returned" /\ RUN_MODE = "interval"
    /\ interrupted' = TRUE
    /\ exit_code' = 0
    /\ main_pc' = "exited"
    /\ UNCHANGED <<notMainVars, mainCfg, success, runs, stash_invoked, files_invoked,
                   stash_outcome, files_outcome>>

NextMain ==
    \/ MainFatalConfig
    \/ MainInvalidRunMode
    \/ RunAllImportsEnter
    \/ StashStepSkipped
    \/ StashStepNoKey
    \/ StashStepRun
    \/ FilesStepSkipped
    \/ FilesStepRun
    \/ MainExitOnce
    \/ KeyboardInterrupt

-----------------------------------------------------------------------------
(* Specifications *)

InitScan == StartScan /\ DRY_RUN = FALSE /\ IdleFiles /\ IdleStash /\ IdlePaging /\ IdleMain

InitClassify ==
    IdleScan /\ DRY_RUN = FALSE /\ StartClassify /\ IdleStash /\ IdlePaging /\ IdleMain

InitFiles ==
    IdleScan /\ DRY_RUN \in BOOLEAN /\ StartFiles /\ IdleStash /\ IdlePaging /\ IdleMain

InitStash ==
    IdleScan /\ DRY_RUN \in BOOLEAN /\ IdleFiles /\ StartStash /\ IdlePaging /\ IdleMain

\* a run of either pipeline
InitPipelines ==
    /\ IdleScan /\ IdlePaging /\ IdleMain
    /\ DRY_RUN \in BOOLEAN
    /\ \/ StartFiles /\ IdleStash
       \/ IdleFiles /\ StartStash

NextPipelines == NextFiles \/ NextStash

SpecScan == InitScan /\ [][NextScan]_vars

SpecClassify == InitClassify /\ [][NextClassify]_vars

SpecFiles == InitFiles /\ [][NextFiles]_vars

SpecStash == InitStash /\ [][NextStash]_vars

SpecPipelines == InitPipelines /\ [][NextPipelines]_vars

InitPaging ==
    IdleScan /\ DRY_RUN = FALSE /\ IdleFiles /\ IdleStash /\ StartPaging /\ IdleMain

\* every request has a timeout and the loop does nothing else, so an iteration
\* that can be taken is taken
SpecPaging == InitPaging /\ [][NextPaging]_vars /\ WF_vars(NextPaging)

InitMain ==
    IdleScan /\ DRY_RUN = FALSE /\ IdleFiles /\ IdleStash /\ IdlePaging /\ StartMain

SpecMain == InitMain /\ [][NextMain]_vars

-----------------------------------------------------------------------------
(* Claims on get_all_subfolders_recursive *)

\* C1: every entry of all_folders has a depth d with 1 <= d <= max_depth, d being
\* its distance below the root, and scan_directory lists no directory at depth
\* max_depth or deeper, so nothing at depth max_depth + 1 is ever enumerated.
C1_DepthBounded ==
    /\ \A k \in DOMAIN all_folders :
        /\ 1 <= all_folders[k][2] /\ all_folders[k][2] <= max_depth
        /\ DirDepth(all_folders[k][1]) = all_folders[k][2]
    /\ \A p \in listed : DirDepth(p) < max_depth

\* a finished scan that returned a folder at depth max_depth, whose own scan was
\* cut by the depth check
C1_Witness ==
    /\ scan_pc = "done" /\ max_depth >= 1
    /\ \E k \in DOMAIN all_folders :
        /\ all_folders[k][2] = max_depth
        /\ all_folders[k][1] \in pruned
        /\ all_folders[k][1] \notin listed

\* a comes before b: deeper, or as deep with more files, or as deep with as many
\* files and the smaller path
Precedes(a, b) ==
    \/ a[2] > b[2]
    \/ a[2] = b[2] /\ a[3] > b[3]
    \/ a[2] = b[2] /\ a[3] = b[3] /\ StrLess(a[1], b[1])

\* C2: the returned list is totally ordered by greater depth, then greater file
\* count, then smaller path.
C2_SortedOrder ==
    scan_pc = "done" =>
        \A a, b \in DOMAIN all_folders : a < b => Precedes(all_folders[a], all_folders[b])

\* the scenario: a folder at depth 1 with 5 files and its child at depth 2 with
\* 3 files are returned child first
C2_Witness ==
    /\ scan_pc = "done"
    /\ all_folders = << <<PathJoin(PathJoin(IMPORT_FOLDER, <<65>>), <<65, 45>>), 2, 3>>,
                        <<PathJoin(IMPORT_FOLDER, <<65>>), 1, 5>> >>

\* equal depth and file count, decided by the path string: "A-/A" before "A/A"
C2_WitnessPathTie ==
    /\ scan_pc = "done"
    /\ \E a, b \in DOMAIN all_folders :
        /\ a < b
        /\ all_folders[a][2] = 2 /\ all_folders[b][2] = 2
        /\ all_folders[a][3] = all_folders[b][3]
        /\ all_folders[a][1] = PathJoin(PathJoin(IMPORT_FOLDER, <<65, 45>>), <<65>>)
        /\ all_folders[b][1] = PathJoin(PathJoin(IMPORT_FOLDER, <<65>>), <<65>>)

-----------------------------------------------------------------------------
(* Claims on filter_matched_files *)

\* the input descriptor at position k was put in the bucket
InMatched(k) == \E j \in DOMAIN matched : matched[j] = all_files[k]
InPotential(k) == \E j \in DOMAIN potential : potential[j].file = all_files[k]
InUnmatched(k) == \E j \in DOMAIN unmatched : unmatched[j].path = all_files[k].path

BucketsOf(k) ==
    (IF InMatched(k) THEN 1 ELSE 0) + (IF InPotential(k) THEN 1 ELSE 0)
        + (IF InUnmatched(k) THEN 1 ELSE 0)

\* the three shapes of the scenario: a scene with an id, an entity but no id, no entity
HasSceneId(f) == f.scene.kind = "dict" /\ f.scene.id # 0
EntityButNoId(f) ==
    /\ f.scene.kind = "dict" \/ f.movie.kind = "dict"
    /\ f.scene.id = 0 /\ f.movie.id = 0
NothingAtAll(f) == f.scene.kind = "none" /\ f.movie.kind = "none"

CountOf(P(_)) == Cardinality({k \in DOMAIN all_files : P(all_files[k])})

\* C3: filter_matched_files puts every input descriptor in exactly one of matched,
\* potential, unmatched, the bucket sizes add up to the number of descriptors, and
\* a response made of descriptors with a scene id, with an entity but no id, and
\* with no entity is split into exactly those three groups.
C3_Partition ==
    file_pc = "classified" =>
        /\ Len(matched) + Len(potential) + Len(unmatched) = Len(all_files)
        /\ \A k \in DOMAIN all_files : BucketsOf(k) = 1
        /\ (\A k \in DOMAIN all_files :
                HasSceneId(all_files[k]) \/ EntityButNoId(all_files[k])
                    \/ NothingAtAll(all_files[k]))
            => /\ Len(matched) = CountOf(HasSceneId)
               /\ Len(potential) = CountOf(EntityButNoId)
               /\ Len(unmatched) = CountOf(NothingAtAll)

\* a classified response of three descriptors, one of each scenario shape
C3_Witness ==
    /\ file_pc = "classified"
    /\ Len(all_files) = 3
    /\ CountOf(HasSceneId) = 1 /\ CountOf(EntityButNoId) = 1 /\ CountOf(NothingAtAll) = 1
    /\ Len(matched) = 1 /\ Len(potential) = 1 /\ Len(unmatched) = 1

-----------------------------------------------------------------------------
(* Claims on process_file_folder *)

RECURSIVE Concat(_)
Concat(ss) == IF ss = <<>> THEN <<>> ELSE Head(ss) \o Concat(Tail(ss))

\* the least k with k * size >= n
CeilDiv(n, size) == CHOOSE k \in 0..n : k * size >= n /\ (k = 0 \/ (k - 1) * size < n)

\* C4: the batches handed to import_file_batch, concatenated in order, are the part
\* of matched covered so far and the whole of matched when the loop ends; no batch
\* is larger than FILE_BATCH_SIZE, every batch but the last has exactly
\* FILE_BATCH_SIZE elements, and the loop ends with ceil(len(matched) /
\* FILE_BATCH_SIZE) batches.
C4_Batching ==
    file_pc = "batches" =>
        /\ Concat(submitted) = SubSeq(matched, 1, Min(file_i, Len(matched)))
        /\ \A k \in DOMAIN submitted :
            /\ Len(submitted[k]) <= FILE_BATCH_SIZE
            /\ k < Len(submitted) => Len(submitted[k]) = FILE_BATCH_SIZE
        /\ file_i >= Len(matched) =>
            /\ Concat(submitted) = matched
            /\ Len(submitted) = CeilDiv(Len(matched), FILE_BATCH_SIZE)
            /\ \A k \in DOMAIN submitted : submitted[k] # <<>>

\* a finished batch loop over three matched files with batch size 2: sizes 2, 1
C4_Witness ==
    /\ file_pc = "batches" /\ file_i >= Len(matched)
    /\ FILE_BATCH_SIZE = 2 /\ Len(matched) = 3
    /\ Len(submitted) = 2 /\ Len(submitted[1]) = 2 /\ Len(submitted[2]) = 1

-----------------------------------------------------------------------------
(* Claims on the catalog sync *)

\* two filtered entries with the same id, which was not registered beforehand
SameIdTwice ==
    /\ Len(stashdb_scenes) = 2
    /\ stashdb_scenes[1].stash_id = stashdb_scenes[2].stash_id
    /\ stashdb_scenes[1].stash_id \notin fetched_ids

\* C5: registering the same external id twice, the first registration accepted,
\* gives one "added" and one "already exists" outcome: one registration request,
\* scenes_added increased by exactly 1 and scenes_already_exist by exactly 1.
C5_AddedOnce ==
    (stash_pc = "done" /\ SameIdTwice /\ Len(outcomes) = 2 /\ outcomes[1] = "created")
        => /\ outcomes[2] = "skipped_exists"
           /\ stash_posts = 1
           /\ total_stats_stash.scenes_added = 1
           /\ total_stats_stash.scenes_already_exist = 1

PostOutcomes == {"created", "exists_400", "failed"}

\* C7: an entry whose external id is in the set of registered ids fetched before
\* processing is skipped without a registration call, and counted as
\* already-exists: the POSTs sent are exactly those of the entries not skipped, and
\* scenes_already_exist counts every skipped entry.
C7_SkipRegistered ==
    /\ \A k \in DOMAIN outcomes :
        stashdb_scenes[k].stash_id \in fetched_ids => outcomes[k] = "skipped_exists"
    /\ stash_posts = Cardinality({k \in DOMAIN outcomes : outcomes[k] \in PostOutcomes})
    /\ total_stats_stash.scenes_already_exist =
        Cardinality({k \in DOMAIN outcomes :
                        outcomes[k] \in {"skipped_exists", "exists_400"}})

\* a finished live run that skipped an entry registered beforehand and sent a
\* registration for another
C7_Witness ==
    /\ stash_pc = "done" /\ ~DRY_RUN
    /\ \E k \in DOMAIN outcomes :
        stashdb_scenes[k].stash_id \in fetched_ids /\ outcomes[k] = "skipped_exists"
    /\ stash_posts >= 1

-----------------------------------------------------------------------------
(* Claims on the dry-run flag *)

\* C6: with DRY_RUN set no POST registering an entry and no POST of an import
\* command is ever sent, and every step of a dry run moves the batches and the
\* counters exactly as the same step of a live run whose submission is accepted.
C6_DryRun ==
    /\ [](DRY_RUN => file_posts = 0 /\ stash_posts = 0)
    /\ [][(DRY_RUN /\ file_pc = "batches" /\ file_i < Len(matched)) =>
            LET batch == SubSeq(matched, file_i + 1,
                                Min(file_i + FILE_BATCH_SIZE, Len(matched)))
                live == import_file_batch(FALSE, batch, "queued")
            IN  /\ submitted' = Append(submitted, batch)
                /\ successful_batches' =
                    successful_batches + (IF live.success THEN 1 ELSE 0)
                /\ file_i' = file_i + FILE_BATCH_SIZE]_vars
    /\ [][(DRY_RUN /\ stash_pc = "batch" /\ stash_j <= Len(StashBatch)
            /\ StashBatch[stash_j].stash_id \notin existing_stash_ids) =>
            LET live == add_scene_to_whisparr(FALSE, "created")
            IN  /\ added' = added + (IF live.success THEN 1 ELSE 0)
                /\ failed' = failed + (IF live.success THEN 0 ELSE 1)
                /\ existing_stash_ids' =
                    existing_stash_ids \cup {StashBatch[stash_j].stash_id}
                /\ total_stats_stash' =
                    [total_stats_stash EXCEPT !.scenes_already_exist = @ + live.exists]]_vars

\* a finished dry run of the file import that formed two batches and counted both
C6_Witness ==
    /\ DRY_RUN /\ file_pc = "done"
    /\ total_stats_files.batches_processed = 2
    /\ total_stats_files.files_imported = 3
    /\ file_posts = 0

\* a finished dry run of the catalog sync that counted an entry as added
C6_WitnessStash ==
    /\ DRY_RUN /\ stash_pc = "done"
    /\ \E k \in DOMAIN outcomes : outcomes[k] = "dry_run"
    /\ total_stats_stash.scenes_added >= 1
    /\ stash_posts = 0

-----------------------------------------------------------------------------
(* Claims on main and run_all_imports *)

\* the configuration errors of the claim
ConfigError ==
    \/ ~WHISPARR_API_KEY
    \/ MODE \in {"both", "stash"} /\ ~STASH_API_KEY
    \/ MODE \notin ValidModes

\* C8 as stated: with a missing required credential or an invalid mode no pipeline
\* is ever invoked.
C8_NoPipelineOnConfigError ==
    ConfigError => stash_invoked = 0 /\ files_invoked = 0

\* C8, amended: a missing import-target key or an invalid mode ends the process
\* with code 1 before run_all_imports is entered; a missing catalog key only keeps
\* run_stash_sync from being called and marks the run failed, and in mode both
\* run_file_import is still called.
C8_FatalConfig ==
    /\ (~WHISPARR_API_KEY \/ MODE \notin ValidModes) =>
        /\ runs = 0 /\ stash_invoked = 0 /\ files_invoked = 0
        /\ main_pc = "exited" => exit_code = 1
    /\ ~STASH_API_KEY => stash_invoked = 0
    /\ (WHISPARR_API_KEY /\ ~STASH_API_KEY /\ MODE = "both" /\ main_pc = "returned") =>
        /\ files_invoked = runs
        /\ ~success

\* the process ended on the missing import-target key
C8_Witness ==
    /\ ~WHISPARR_API_KEY /\ MODE = "both" /\ RUN_MODE = "once"
    /\ main_pc = "exited" /\ exit_code = 1

\* the catalog key is missing and the file import has run all the same
C8_WitnessNoStashKey ==
    /\ WHISPARR_API_KEY /\ ~STASH_API_KEY /\ MODE = "both" /\ RUN_MODE = "once"
    /\ main_pc = "exited" /\ files_invoked = 1 /\ exit_code = 1

\* the last run_all_imports went through both steps
RunCompleted == stash_outcome # "none" /\ files_outcome # "none"

\* an enabled pipeline reported failure, or a required credential is missing
SomeFailure ==
    \/ ~WHISPARR_API_KEY
    \/ stash_outcome \in {"no_key", "failed", "raised"}
    \/ files_outcome \in {"failed", "raised"}

\* every enabled pipeline completed successfully
AllEnabledOk ==
    /\ MODE \in {"both", "stash"} => stash_outcome = "ok"
    /\ MODE \in {"both", "files"} => files_outcome = "ok"

\* C9 as stated, for the processes whose last run went through both steps or that
\* never ran: the exit code is 1 whenever a pipeline failed or a credential is
\* missing, and 0 only when every enabled pipeline succeeded, in every cadence.
C9_ExitCodeEveryCadence ==
    (main_pc = "exited" /\ (RunCompleted \/ runs = 0)) =>
        /\ SomeFailure => exit_code = 1
        /\ exit_code = 0 => WHISPARR_API_KEY /\ MODE \in ValidModes /\ AllEnabledOk

\* C9, amended: a missing import-target key, an invalid mode or an invalid run
\* mode gives 1; otherwise a user interrupt gives 0; otherwise the process is in
\* single-shot mode and exits with 1 exactly when a pipeline failed or the catalog
\* key is missing, and with 0 exactly when every enabled pipeline succeeded.  In
\* interval mode the process ends only on a user interrupt, with 0.
C9_ExitCode ==
    main_pc = "exited" =>
        IF FatalConfig(WHISPARR_API_KEY, MODE) \/ RUN_MODE \notin {"once", "interval"}
        THEN exit_code = 1 /\ runs = 0
        ELSE IF interrupted THEN exit_code = 0
        ELSE /\ RUN_MODE = "once"
             /\ RunCompleted
             /\ exit_code = 1 <=> SomeFailure
             /\ exit_code = 0 <=> AllEnabledOk

\* a single-shot run in mode both whose file import failed after the catalog sync
\* succeeded, ended with code 1
C9_Witness ==
    /\ main_pc = "exited" /\ ~interrupted
    /\ RUN_MODE = "once" /\ MODE = "both"
    /\ stash_outcome = "ok" /\ files_outcome = "failed"
    /\ exit_code = 1

\* an interval process whose pipelines failed, ended with code 0
C9_WitnessInterval ==
    /\ main_pc = "exited" /\ RUN_MODE = "interval" /\ RunCompleted
    /\ stash_outcome = "failed"
    /\ exit_code = 0

-----------------------------------------------------------------------------
(* Claims on get_stash_scenes *)

\* C10 as stated: the loop is over as soon as a page came with fewer scenes than
\* per_page, or the scenes fetched reach the reported total.
C10_StopsOnShortPage ==
    (last_kind = "ok" /\ (last_items < per_page \/ fetched >= last_total))
        => page_pc = "done"

\* the answers after which the code leaves the loop
StopAnswer ==
    \/ last_kind \in {"errors", "exception"}
    \/ last_kind = "ok" /\ (last_items = 0 \/ fetched >= last_total)

\* C10, amended: the loop is over exactly when the last answer was a failure, a
\* GraphQL error, an empty page, or brought the scenes fetched to the reported
\* total (a page shorter than per_page that is not empty does not end it), no
\* request is sent for a page after that, and the loop ends for every catalog
\* that eventually answers in one of these ways.
C10_Stops ==
    /\ [](page_requests > 0 => (StopAnswer <=> page_pc = "done"))
    /\ [][page_pc = "done" => page_requests' = page_requests]_vars
    /\ <>(page_pc = "done")

\* a short page that did not end the loop, and the empty page that did
C10_Witness ==
    /\ page_pc = "done" /\ last_kind = "ok"
    /\ page = 2 /\ page_requests = 2
    /\ fetched = 1 /\ last_items = 0 /\ last_total > fetched

-----------------------------------------------------------------------------
(* Claim on run_all_imports: the sibling pipeline *)

\* the catalog sync of this run was called and raised or returned failure
StashSyncFailed == stash_outcome \in {"failed", "raised"}

\* C11: in mode both, when run_stash_sync raises an exception or returns failure,
\* the next step of run_all_imports, unless the user interrupts, is the call of
\* run_file_import, and run_all_imports returns failure whatever run_file_import
\* did
C11_SiblingStillRuns ==
    /\ [](MODE = "both" /\ StashSyncFailed /\ main_pc = "returned" =>
            files_outcome \in PipelineOutcomes /\ success = FALSE)
    /\ [][MODE = "both" /\ StashSyncFailed /\ main_pc = "files_step" /\ ~interrupted' =>
            /\ files_invoked' = files_invoked + 1
            /\ files_outcome' \in PipelineOutcomes
            /\ success' = FALSE]_vars

\* run_all_imports has returned in mode both after run_stash_sync raised and
\* run_file_import succeeded
C11_Witness ==
    /\ MODE = "both"
    /\ main_pc = "returned"
    /\ stash_outcome = "raised"
    /\ files_outcome = "ok"
    /\ files_invoked = 1
    /\ success = FALSE

-----------------------------------------------------------------------------
(* Claims on run_file_import *)

\* the paths of a folder list, in order
PathsOf(folders) == [k \in DOMAIN folders |-> folders[k][1]]

\* get_files_to_import ended in a timeout or a request error
QueryFailed(kind) == kind \in {"timeout", "error"}

\* C12: a timeout or a transport error of the file query of a folder adds nothing
\* to files_imported, files_unmatched and batches_processed, sends nothing, and
\* leaves the loop running; the folders are queried once each in the order of the
\* list, and when the loop has ended subfolders_processed has grown by the length
\* of the list and run_file_import has returned True
C12_QueryFailureNotFatal ==
    /\ [](file_pc \in {"folder", "batches", "done"} =>
            /\ Len(query_kinds) = Len(queried)
            /\ Len(queried) <= Len(folders_to_process)
            /\ queried = SubSeq(PathsOf(folders_to_process), 1, Len(queried)))
    /\ [](file_pc = "done" /\ folders_to_process # <<>> =>
            /\ queried = PathsOf(folders_to_process)
            /\ total_stats_files.subfolders_processed = Len(folders_to_process)
            /\ file_result = TRUE)
    /\ [][query_kinds' # query_kinds /\ QueryFailed(query_kinds'[Len(query_kinds')]) =>
            /\ total_stats_files' =
                [total_stats_files EXCEPT !.subfolders_processed = @ + 1]
            /\ file_posts' = file_posts
            /\ formed' = formed
            /\ file_pc' = IF idx < Len(folders_to_process) THEN "folder" ELSE "done"]_vars

\* a finished run over two folders whose first query timed out and whose second
\* folder had a file imported
C12_Witness ==
    /\ file_pc = "done"
    /\ Len(folders_to_process) = 2
    /\ query_kinds = <<"timeout", "ok">>
    /\ total_stats_files.subfolders_processed = 2
    /\ total_stats_files.files_imported >= 1
    /\ file_result = TRUE

-----------------------------------------------------------------------------
(* Claim on filter_matched_files and import_file_batch together *)

\* the request import_file_batch builds when no descriptor of the batch is dropped
FullRequest(batch) ==
    [k \in DOMAIN batch |-> [path |-> batch[k].path, movieId |-> scene_id_of(batch[k])]]

\* C13: every descriptor in matched has an id, and import_file_batch resolves the
\* same id for it as filter_matched_files did; in a live run the request of each
\* batch of process_file_folder has one file per descriptor of the batch, with
\* that id, so no batch is refused as empty and each batch is one POST
C13_SameEntityId ==
    /\ \A k \in DOMAIN matched :
            /\ scene_id_of(matched[k]) # 0
            /\ entity_id_of(matched[k]) = scene_id_of(matched[k])
    /\ (file_pc = "batches" /\ ~DRY_RUN /\ submitted # <<>>) =>
            /\ last_request = FullRequest(submitted[Len(submitted)])
            /\ last_request # <<>>
    /\ (file_pc \in {"folder", "batches", "done"} /\ ~DRY_RUN) => file_posts = formed

\* a live run has submitted a batch of two descriptors, one with the id of its
\* scene, which also has a movie with an id, and one with the id of its movie
\* under a scene without id
C13_Witness ==
    /\ file_pc = "batches"
    /\ ~DRY_RUN
    /\ submitted # <<>>
    /\ Len(submitted[Len(submitted)]) = 2
    /\ Len(last_request) = 2
    /\ \E j, k \in 1..2 :
            /\ submitted[Len(submitted)][j].scene = Entity(1)
            /\ submitted[Len(submitted)][j].movie = Entity(2)
            /\ submitted[Len(submitted)][k].scene = EntityNoId
            /\ submitted[Len(submitted)][k].movie = Entity(2)
            /\ last_request[j].movieId = 1
            /\ last_request[k].movieId = 2

-----------------------------------------------------------------------------
(* Claim on run_stash_sync: the counters of a completed run *)

\* C14: whatever add_scene_to_whisparr returns for an entry, the batch loop goes on
\* to the next entry: each filtered entry is processed once, in order, and when
\* the run over k filtered entries has ended, scenes_added + scenes_failed = k,
\* batches_processed = ceil(k / STASH_BATCH_SIZE) and run_stash_sync has returned
\* True
C14_NoItemAborts ==
    /\ stash_pc = "batch" =>
            /\ Len(outcomes) = stash_i + stash_j - 1
            /\ added + failed = stash_j - 1
            /\ stash_result = "none"
    /\ (stash_pc = "done" /\ stashdb_scenes # <<>>) => stash_result = TRUE
    /\ (stash_pc = "done" /\ stash_result = TRUE) =>
            LET k == Len(stashdb_scenes)
            IN  /\ Len(outcomes) = k
                /\ total_stats_stash.scenes_with_stashdb = k
                /\ total_stats_stash.scenes_added + total_stats_stash.scenes_failed = k
                /\ total_stats_stash.batches_processed = CeilDiv(k, STASH_BATCH_SIZE)

\* a finished live run over three entries in batches of two: the first
\* registration failed, the second was answered with "already exists", the third
\* was accepted
C14_Witness ==
    /\ stash_pc = "done"
    /\ ~DRY_RUN
    /\ STASH_BATCH_SIZE = 2
    /\ outcomes = <<"failed", "exists_400", "created">>
    /\ total_stats_stash.scenes_added = 2
    /\ total_stats_stash.scenes_failed = 1
    /\ total_stats_stash.batches_processed = 2
    /\ stash_result = TRUE

-----------------------------------------------------------------------------
(* Claims on run_file_import: MAX_SUBFOLDERS *)

\* run_file_import is past the discovery
Discovered == file_pc \in {"folder", "batches", "done"}

\* the first n entries of a list, all of it when it is shorter
FirstN(list, n) == SubSeq(list, 1, Min(n, Len(list)))

\* the entry of the import folder itself, present when PROCESS_ROOT_FILES is set
RootEntries == IF PROCESS_ROOT_FILES /\ folders_to_process # <<>> THEN 1 ELSE 0

\* the discovered folders among the folders to process
KeptSubfolders == SubSeq(folders_to_process, RootEntries + 1, Len(folders_to_process))

\* C15 as stated: with a cap N >= 1 at most N folders are queried in a run,
\* whatever PROCESS_ROOT_FILES is, and the discovered folders kept are the first N
\* of the sorted discovery
C15_AtMostNFolders ==
    (Discovered /\ MAX_SUBFOLDERS >= 1) =>
        /\ Len(queried) <= MAX_SUBFOLDERS
        /\ KeptSubfolders = FirstN(discovery, MAX_SUBFOLDERS)

\* C15, amended: with a cap N >= 1 the subfolders processed are the first N of the
\* sorted discovery; the import folder is not counted: with PROCESS_ROOT_FILES it is
\* processed first and in addition, so at most N + 1 folders are queried, and at
\* most N without it
C15_AtMostNSubfolders ==
    (Discovered /\ MAX_SUBFOLDERS >= 1) =>
        /\ KeptSubfolders = FirstN(discovery, MAX_SUBFOLDERS)
        /\ RootEntries = 1 => folders_to_process[1][1] = IMPORT_FOLDER
        /\ Len(queried) <= MAX_SUBFOLDERS + RootEntries
        /\ Len(queried) <= Len(folders_to_process)
        /\ queried = SubSeq(PathsOf(folders_to_process), 1, Len(queried))

\* a finished run with cap 1 and PROCESS_ROOT_FILES over a discovery of two
\* subfolders: the import folder and the first subfolder were queried
C15_Witness ==
    /\ file_pc = "done"
    /\ MAX_SUBFOLDERS = 1
    /\ PROCESS_ROOT_FILES
    /\ Len(discovery) = 2
    /\ queried = <<IMPORT_FOLDER, discovery[1][1]>>

-----------------------------------------------------------------------------
(* Claim on run_file_import: the file statistics *)

\* C16: in a run that starts with zeroed statistics, between folders and at the
\* end files_imported + files_unmatched is the number of descriptors the import
\* target returned for the folders processed; a folder adds len(matched) to
\* files_imported and its successful batches to batches_processed, so
\* files_imported does not depend on the batches being accepted, while
\* batches_processed never exceeds the number of batches formed, nor, in a live
\* run, the number of submissions sent
C16_FileStatsConserved ==
    /\ [](file_pc \in {"folder", "done"} =>
            total_stats_files.files_imported + total_stats_files.files_unmatched
                = returned)
    /\ [](file_pc = "batches" =>
            /\ total_stats_files.files_imported + total_stats_files.files_unmatched
                    + Len(all_files) = returned
            /\ Len(matched) + Len(potential) + Len(unmatched) = Len(all_files)
            /\ successful_batches <= Len(submitted))
    /\ [](Discovered =>
            /\ total_stats_files.batches_processed + successful_batches <= formed
            /\ ~DRY_RUN =>
                    total_stats_files.batches_processed + successful_batches
                        <= file_posts)
    /\ [][total_stats_files' # total_stats_files =>
            /\ total_stats_files'.files_imported
                    = total_stats_files.files_imported + Len(matched)
            /\ total_stats_files'.batches_processed
                    = total_stats_files.batches_processed + successful_batches]_vars

\* a finished live run in which three descriptors were returned, two of them
\* matched, and no batch was accepted
C16_Witness ==
    /\ file_pc = "done"
    /\ ~DRY_RUN
    /\ returned = 3
    /\ total_stats_files.files_imported = 2
    /\ total_stats_files.files_unmatched = 1
    /\ formed >= 1
    /\ total_stats_files.batches_processed = 0

=============================================================================
